---- MODULE Spec2Model ----
(***************************************************************************)
(* Model of OpenHtml.py: the date-keyed stock screening run.               *)
(*                                                                         *)
(* A run (one execution of the script) computes today's date, skips        *)
(* everything when result_<date>.json exists, otherwise ensures the        *)
(* universe snapshot, fans one process_stock task per ticker out to a      *)
(* thread pool, collects the results as the tasks complete and writes      *)
(* result_<date>.json.  process_stock runs under the retry decorator.      *)
(*                                                                         *)
(* A price series (DataFrame) is modelled as the sequence of its 'high'   *)
(* values; its index is the default 0..n-1 and its trade_date column is    *)
(* strictly increasing, so the trade_date of a bar is given by its         *)
(* position.                                                               *)
(***************************************************************************)
EXTENDS Integers, Sequences, FiniteSets, TLC

\* ------------------------------------------------------------------ bounds
NumTickers == 2     \* ticker codes are 1..NumTickers
MaxRuns == 2        \* executions of the script
MaxDate == 2        \* calendar dates 1..MaxDate
MaxCores == 2       \* os.cpu_count() is drawn from 1..MaxCores
MaxLen == 31        \* bars of a series under test
MaxSpikes == 1      \* bars of a series under test that leave its trend
MaxRank == 4        \* get_nth_high_info is called with n in 1..MaxRank
MaxChain == 2       \* filters in a chain handed to process_stock

Tickers == 1..NumTickers
Dates == 1..MaxDate

\* The universe the provider's all_code() returns: every ticker code.
Universes == { Tickers }

\* The series the provider's get_market() can return: empty, one bar, two
\* bars, three bars peaking on the last bar, three bars peaking earlier.
MarketData == { <<>>, <<1>>, <<1, 2>>, <<1, 1, 2>>, <<2, 1, 1>> }

None == 0           \* Python's None as a task result; ticker codes are >= 1

\* A DataFrame value: None, or the sequence of its 'high' column.
NoneDf == [none |-> TRUE, high |-> <<>>]
DataFrame(s) == [none |-> FALSE, high |-> s]
NoData == NoneDf    \* no DataFrame bound (the provider has not returned)

Max2(a, b) == IF a >= b THEN a ELSE b

\* ------------------------------------------------------- pandas helpers

\* Series.tail(k) and Series.iloc[-k:]: the last k values (all, when shorter).
Tail_k(s, k) == IF Len(s) <= k THEN s ELSE SubSeq(s, Len(s) - k + 1, Len(s))

\* Series.max() of a non-empty series.
SeriesMax(s) == CHOOSE m \in { s[i] : i \in 1..Len(s) } : \A i \in 1..Len(s) : s[i] <= m

RECURSIVE ScanLargest(_, _, _, _)

\* A variant that keeps the latest among equal values.
ScanLargest_KeepLast(s, taken, i, best) ==
  IF i > Len(s) THEN best
  ELSE IF (\A j \in 1..Len(taken) : taken[j] # i) /\ (best = 0 \/ s[i] >= s[best])
    THEN ScanLargest(s, taken, i + 1, i)
    ELSE ScanLargest(s, taken, i + 1, best)

\* The position of the highest value not yet taken, the earliest among equal
\* ones: one scan from position i on, best the candidate so far (0: none).
ScanLargest(s, taken, i, best) ==
  IF i > Len(s) THEN best
  ELSE IF (\A j \in 1..Len(taken) : taken[j] # i) /\ (best = 0 \/ s[i] > s[best])
    THEN ScanLargest(s, taken, i + 1, i)
    ELSE ScanLargest(s, taken, i + 1, best)

\* Series.nlargest(n), keep='first': the 1-based positions of the n largest
\* values, largest first, equal values in their original order.
RECURSIVE TakeLargest(_, _, _)
TakeLargest(s, taken, n) ==
  IF n = 0 \/ Len(taken) = Len(s)
    THEN taken
    ELSE TakeLargest(s, Append(taken, ScanLargest(s, taken, 1, 0)), n - 1)

nlargest(s, n) == TakeLargest(s, <<>>, n)

NoneTriple == [date |-> None, value |-> None, index |-> -1, none |-> TRUE]

\* Lines 27-30: date, value and (0-based) index label of the bar at 1-based
\* position p.  The trade_date of a bar is given by its position.
HighInfo(df, p) == [date |-> p, value |-> df.high[p], index |-> p - 1, none |-> FALSE]

\* get_nth_high_info(df, n): the n-th highest bar, or (None, None, None).
get_nth_high_info(df, n) ==
  IF df.none \/ Len(df.high) < n
    THEN NoneTriple
    ELSE HighInfo(df, nlargest(df.high, n)[n])

\* ------------------------------------------------------------ predicates
\* Each returns "True" or "False", or "Raise" when the Python code raises.

\* A variant that compares with <= instead of <.
is_price_increasing_NonStrict(df) ==
  IF df.none \/ Len(df.high) < 10
    THEN "False"
    ELSE LET last_10_days_highs == Tail_k(df.high, 10)
         IN  IF \A i \in 0..(Len(last_10_days_highs) - 2) :
                  last_10_days_highs[i + 1] <= last_10_days_highs[i + 2]
               THEN "True" ELSE "False"

\* is_price_increasing(df), lines 59-63.
is_price_increasing(df) ==
  IF df.none \/ Len(df.high) < 10
    THEN "False"
    ELSE LET last_10_days_highs == Tail_k(df.high, 10)
         IN  IF \A i \in 0..(Len(last_10_days_highs) - 2) :
                  last_10_days_highs[i + 1] < last_10_days_highs[i + 2]
               THEN "True" ELSE "False"

\* A variant that compares the two maxima with < instead of <=.
is_30_to_7_high_max_Strict(df) ==
  IF df.none \/ Len(df.high) < 30
    THEN "False"
    ELSE LET n == Len(df.high)
             high_last_30_to_7 == SubSeq(df.high, n - 30 + 1, n - 7)
             last_seven_highs == Tail_k(df.high, 7)
         IN  IF SeriesMax(high_last_30_to_7) < SeriesMax(last_seven_highs)
               THEN "True" ELSE "False"

\* is_30_to_7_high_max(df), lines 66-71.
is_30_to_7_high_max(df) ==
  IF df.none \/ Len(df.high) < 30
    THEN "False"
    ELSE LET n == Len(df.high)
             high_last_30_to_7 == SubSeq(df.high, n - 30 + 1, n - 7)
             last_seven_highs == Tail_k(df.high, 7)
         IN  IF SeriesMax(high_last_30_to_7) <= SeriesMax(last_seven_highs)
               THEN "True" ELSE "False"

\* Series.iloc[start:stop:-1] with 0-based bounds: Python resolves a negative
\* bound from the end and clamps both into -1..n-1; the slice runs from
\* start down to stop + 1 and is empty when start <= stop.
ReverseSlice(s, start, stop) ==
  LET n == Len(s)
      Resolve(b) == LET r == IF b < 0 THEN b + n ELSE b
                    IN  IF r < 0 THEN -1 ELSE IF r >= n THEN n - 1 ELSE r
      from == Resolve(start)
      to == Resolve(stop)
  IN  [i \in 1..(IF from > to THEN from - to ELSE 0) |-> s[from - i + 2]]

\* Lines 82-83 and 97 of filter_logic_three: the window comparison it computes
\* and does not return.  max() of an empty slice is NaN, and NaN <= x is False.
is_3023_high_7_high(df) ==
  LET last_index == Len(df.high) - 1
      high_last_30_to_7 == ReverseSlice(df.high, last_index - 7, last_index - 30)
      last_seven_highs == Tail_k(df.high, 7)
  IN  IF Len(high_last_30_to_7) = 0
        THEN FALSE
        ELSE SeriesMax(high_last_30_to_7) <= SeriesMax(last_seven_highs)

\* A variant that requires both the 2nd- and the 3rd-highest bar to be apart.
PeakPosition_BothApart(df, first, second, third) ==
  IF second.none \/ third.none
    THEN "Raise"
    ELSE LET dist(a, b) == IF a >= b THEN a - b ELSE b - a
             first_second == dist(first.index, second.index) # 1
             first_third == dist(first.index, third.index) # 1
             is_first_high_date_last_date == (first.date = Len(df.high))
         IN  IF is_first_high_date_last_date /\ (first_second /\ first_third)
               THEN "True" ELSE "False"

\* A variant that also requires the window comparison of line 97.
PeakPosition_Windowed(df, first, second, third) ==
  IF second.none \/ third.none
    THEN "Raise"
    ELSE LET dist(a, b) == IF a >= b THEN a - b ELSE b - a
             first_second == dist(first.index, second.index) # 1
             first_third == dist(first.index, third.index) # 1
             is_first_high_date_last_date == (first.date = Len(df.high))
         IN  IF is_first_high_date_last_date /\ (first_second \/ first_third)
                  /\ is_3023_high_7_high(df)
               THEN "True" ELSE "False"

\* Lines 94-99 of filter_logic_three, on the three bars found.
\* abs(index - None) raises TypeError.
PeakPosition(df, first, second, third) ==
  IF second.none \/ third.none
    THEN "Raise"
    ELSE LET dist(a, b) == IF a >= b THEN a - b ELSE b - a
             first_second == dist(first.index, second.index) # 1
             first_third == dist(first.index, third.index) # 1
             is_first_high_date_last_date == (first.date = Len(df.high))
             is_3023_high_7_high_ == is_3023_high_7_high(df)
         IN  IF is_first_high_date_last_date /\ (first_second \/ first_third)
               THEN "True" ELSE "False"

\* filter_logic_three(df), lines 74-99.
filter_logic_three(df) ==
  IF df.none \/ Len(df.high) = 0
    THEN "False"
    ELSE LET last_seven_highs == Tail_k(df.high, 7)
             top_two_highs == nlargest(last_seven_highs, 2)
         IN  IF Len(top_two_highs) < 2
               THEN "False"
               ELSE PeakPosition(df, get_nth_high_info(df, 1),
                                 get_nth_high_info(df, 2), get_nth_high_info(df, 3))

\* A variant that takes the recent maximum over the last 8 bars.
is_seven_equals_thirty_high_Tail8(df) ==
  IF df.none \/ Len(df.high) < 30
    THEN "False"
    ELSE LET max_seven_day_high == SeriesMax(Tail_k(df.high, 8))
             max_thirty_day_high == SeriesMax(Tail_k(df.high, 30))
         IN  IF max_seven_day_high = max_thirty_day_high THEN "True" ELSE "False"

\* is_seven_equals_thirty_high(df), lines 102-116.
is_seven_equals_thirty_high(df) ==
  IF df.none \/ Len(df.high) < 30
    THEN "False"
    ELSE LET max_seven_day_high == SeriesMax(Tail_k(df.high, 7))
             max_thirty_day_high == SeriesMax(Tail_k(df.high, 30))
         IN  IF max_seven_day_high = max_thirty_day_high THEN "True" ELSE "False"

\* filters_to_apply, line 413: the chain process_stock is called with.
filters_to_apply == <<"filter_logic_three">>

\* What filter_func(df) returns, for each of the four filter functions (they
\* are pure, so a chain that names one twice gets the same answer twice).
Returns(df) ==
  [is_price_increasing |-> is_price_increasing(df),
   is_30_to_7_high_max |-> is_30_to_7_high_max(df),
   filter_logic_three |-> filter_logic_three(df),
   is_seven_equals_thirty_high |-> is_seven_equals_thirty_high(df)]

\* The predicates a chain can be made of, and the chains under test.
FilterNames == {"is_price_increasing", "is_30_to_7_high_max", "filter_logic_three",
                "is_seven_equals_thirty_high"}
Chains == UNION { [1..k -> FilterNames] : k \in 0..MaxChain }

RECURSIVE ChainLoop(_, _, _, _)

\* A variant that goes on after a falsy result and lets the last filter decide.
ChainLoop_LastWins(filters, i, returned, invoked) ==
  IF i > Len(filters) THEN [result |-> "True", invoked |-> invoked]
  ELSE LET r == returned[filters[i]]
       IN  IF r = "Raise" \/ (r = "False" /\ i = Len(filters))
             THEN [result |-> r, invoked |-> Append(invoked, filters[i])]
             ELSE ChainLoop(filters, i + 1, returned, Append(invoked, filters[i]))

\* The for-loop over filters, lines 130-132, from the i-th filter on, with the
\* filters invoked so far and what each filter function returns for df: the
\* result is "True" when all pass, "False" at the first falsy result, "Raise"
\* when a filter raises.
ChainLoop(filters, i, returned, invoked) ==
  IF i > Len(filters) THEN [result |-> "True", invoked |-> invoked]
  ELSE LET r == returned[filters[i]]
       IN  IF r = "True"
             THEN ChainLoop(filters, i + 1, returned, Append(invoked, filters[i]))
             ELSE [result |-> r, invoked |-> Append(invoked, filters[i])]

RunChain(filters, i, df) == ChainLoop(filters, i, Returns(df), <<>>).result


\* ------------------------------------------------------------------ state

\* @retry(Exception, tries=3, delay=2, backoff=2) on process_stock
tries == 3
delay == 2
backoff == 2
\* pool_size = max(10, num_cores * 2)
MinPoolSize == 10

VARIABLES
  clock,          \* the wall-clock calendar date (datetime.date.today())
  runs,           \* executions of the script started so far
  pc,             \* position of the main thread of the current execution
  today_date,     \* module-level today_date (0: not computed)
  fetched,        \* get_stocks_info's local stocks_info (all_code()'s answer)
  stocks_info,    \* module-level stocks_info, loaded from the snapshot
  universeFile,   \* stock_info_<date>.json, per date
  resultFile,     \* result_<date>.json, per date
  universeCalls,  \* calls of adata.stock.info.all_code() in this execution
  pool_size,      \* max_workers of the executor
  task,           \* per ticker: the future running process_stock(code)
  collected,      \* futures already yielded by as_completed
  results,        \* the results list
  error,          \* why the execution aborted ("none" when it did not)
  series,         \* a DataFrame handed to the predicates
  slope,          \* day-over-day rise of that series' trend
  verdict         \* what each predicate returned for it

runVars == <<clock, runs, pc, today_date, fetched, stocks_info, universeFile,
             resultFile, universeCalls, pool_size, task, collected, results, error>>
seriesVars == <<series, slope, verdict>>
vars == <<runVars, seriesVars>>

NoUniverseFile == [exists |-> FALSE, data |-> {}]
NoResultFile == [exists |-> FALSE, recs |-> <<>>, closed |-> FALSE]

NewTask == [pc |-> "unsubmitted", local_tries |-> 0, local_delay |-> 0,
            df |-> NoData, value |-> None, raised |-> FALSE, calls |-> 0,
            sleeps |-> <<>>, logged |-> 0]

RunOver == pc \in {"idle", "skipped", "finished", "aborted"}

\* The wrapper's handling of an exception of func: inside the while loop
\* (lines 44-48) it goes on to sleep; in the final attempt (lines 51-54) it
\* appends one line to the error log and returns None.  The frame of func
\* is gone, and its df with it.
\* A variant whose loop runs while local_tries > 0: one attempt too many.
OnException_ExtraTry(tk) ==
  IF tk.local_tries > 0
    THEN [tk EXCEPT !.pc = "sleep", !.df = NoData]
    ELSE [tk EXCEPT !.pc = "done", !.df = NoData, !.value = None, !.logged = @ + 1]

\* A variant whose final attempt lets the exception out of the wrapper.
OnException_Reraise(tk) ==
  IF tk.local_tries > 1
    THEN [tk EXCEPT !.pc = "sleep", !.df = NoData]
    ELSE [tk EXCEPT !.pc = "done", !.df = NoData, !.value = None, !.raised = TRUE]

OnException(tk) ==
  IF tk.local_tries > 1
    THEN [tk EXCEPT !.pc = "sleep", !.df = NoData]
    ELSE [tk EXCEPT !.pc = "done", !.df = NoData, !.value = None, !.logged = @ + 1]

\* Lines 125-143: the remainder of process_stock(code, filters) on the
\* fetched series tk.df, given what each filter function returns for it.
ProcessFetched(tk, code, filters, returned, info) ==
  IF Len(tk.df.high) = 0
    THEN [tk EXCEPT !.pc = "done", !.value = None]
    ELSE LET r == ChainLoop(filters, 1, returned, <<>>).result
         IN  IF r = "False" THEN [tk EXCEPT !.pc = "done", !.value = None]
             ELSE IF r = "Raise" THEN OnException(tk)
             ELSE IF code \in info THEN [tk EXCEPT !.pc = "done", !.value = code]
             ELSE OnException(tk)

\* process_stock(1, c) once the provider has returned df, in an execution
\* whose universe holds ticker 1: the record returned (None: none) and the
\* filters invoked.
ChainRun(df, returned, c) ==
  LET tk == ProcessFetched([NewTask EXCEPT !.pc = "eval", !.df = df,
                                           !.local_tries = tries],
                           1, c, returned, {1})
  IN  [value |-> IF tk.pc = "done" THEN tk.value ELSE None,
       invoked |-> IF Len(df.high) = 0 THEN <<>>
                   ELSE ChainLoop(c, 1, returned, <<>>).invoked]

\* The four predicates, get_nth_high_info for each n and process_stock for
\* each chain, applied to one DataFrame.
Verdicts(df) ==
  LET returned == Returns(df)
  IN  [is_price_increasing |-> returned.is_price_increasing,
       is_30_to_7_high_max |-> returned.is_30_to_7_high_max,
       filter_logic_three |-> returned.filter_logic_three,
       is_seven_equals_thirty_high |-> returned.is_seven_equals_thirty_high,
       get_nth_high_info |-> [n \in 1..MaxRank |-> get_nth_high_info(df, n)],
       process_stock |-> [c \in Chains |-> ChainRun(df, returned, c)]]

InitRun ==
  /\ clock = 1
  /\ runs = 0
  /\ pc = "idle"
  /\ today_date = 0
  /\ fetched = {}
  /\ stocks_info = {}
  /\ universeFile = [d \in Dates |-> NoUniverseFile]
  /\ resultFile = [d \in Dates |-> NoResultFile]
  /\ universeCalls = 0
  /\ pool_size = 0
  /\ task = [t \in Tickers |-> NewTask]
  /\ collected = {}
  /\ results = <<>>
  /\ error = "none"

Init ==
  /\ InitRun
  /\ series = NoneDf
  /\ slope = 0
  /\ verdict = Verdicts(NoneDf)

\* ---------------------------------------------------------- environment

\* The calendar date advances.  The program reads the date at process start
\* (line 394) and once more in get_stocks_info (line 155) and nowhere else; a
\* change of date at any other moment is observed exactly as the same change
\* right before the next read, so the step is taken only where a read follows.
Midnight ==
  /\ clock < MaxDate
  /\ pc \in {"idle", "skipped", "finished", "aborted", "all_code", "save_universe"}
  /\ clock' = clock + 1
  /\ UNCHANGED <<seriesVars, runs, pc, today_date, fetched, stocks_info, universeFile,
                 resultFile, universeCalls, pool_size, task, collected,
                 results, error>>

\* ------------------------------------------------------ main thread

\* Files named by a date before d.  Dates only advance and every file name
\* is built from a date read at or after process start, so once a process
\* starts on date d no step can read or write them again: they are left out
\* of the state from then on.
Reachable(files, none, d) == [x \in Dates |-> IF x < d THEN none ELSE files[x]]

\* A fresh process: nothing of an earlier execution's memory remains.
FreshProcess ==
  /\ runs' = runs + 1
  /\ universeFile' = Reachable(universeFile, [exists |-> FALSE, data |-> {}], clock)
  /\ resultFile' = Reachable(resultFile,
                             [exists |-> FALSE, recs |-> <<>>, closed |-> FALSE], clock)
  /\ today_date' = clock
  /\ fetched' = {}
  /\ stocks_info' = {}
  /\ universeCalls' = 0
  /\ pool_size' = 0
  /\ task' = [t \in Tickers |-> NewTask]
  /\ collected' = {}
  /\ results' = <<>>
  /\ error' = "none"

\* A variant that calls get_stocks_info before looking for the result file.
StartRunSkip_FetchFirst ==
  /\ RunOver /\ runs < MaxRuns
  /\ resultFile[clock].exists
  /\ runs' = runs + 1
  /\ universeFile' = Reachable(universeFile, [exists |-> FALSE, data |-> {}], clock)
  /\ resultFile' = Reachable(resultFile,
                             [exists |-> FALSE, recs |-> <<>>, closed |-> FALSE], clock)
  /\ today_date' = clock
  /\ fetched' = {}
  /\ stocks_info' = {}
  /\ universeCalls' = 1
  /\ pool_size' = 0
  /\ task' = [t \in Tickers |-> NewTask]
  /\ collected' = {}
  /\ results' = <<>>
  /\ error' = "none"
  /\ pc' = "skipped"
  /\ UNCHANGED <<seriesVars, clock>>

\* Lines 394-399 and 428-429: result_<today>.json exists, nothing is done.
StartRunSkip ==
  /\ RunOver /\ runs < MaxRuns
  /\ resultFile[clock].exists
  /\ FreshProcess
  /\ pc' = "skipped"
  /\ UNCHANGED <<seriesVars, clock>>

\* Lines 394-400: no result file for today, the screening branch is entered.
StartRunScreen ==
  /\ RunOver /\ runs < MaxRuns
  /\ ~resultFile[clock].exists
  /\ FreshProcess
  /\ pc' = "all_code"
  /\ UNCHANGED <<seriesVars, clock>>

\* Line 147: get_stocks_info first asks the provider for the universe.
AllCodeReturns ==
  /\ pc = "all_code"
  /\ \E u \in Universes : fetched' = u
  /\ universeCalls' = universeCalls + 1
  /\ pc' = "save_universe"
  /\ UNCHANGED <<seriesVars, clock, runs, today_date, stocks_info, universeFile, resultFile,
                 pool_size, task, collected, results, error>>

\* Line 147 raises: get_stocks_info is not retried, the execution ends.
AllCodeRaises ==
  /\ pc = "all_code"
  /\ universeCalls' = universeCalls + 1
  /\ pc' = "aborted"
  /\ error' = "universe"
  /\ UNCHANGED <<seriesVars, clock, runs, today_date, fetched, stocks_info, universeFile,
                 resultFile, pool_size, task, collected, results>>

\* Lines 155-166: the snapshot is named by the date read now, and written
\* only when no such file exists.  The function returns: its local is gone.
SaveUniverse ==
  /\ pc = "save_universe"
  /\ universeFile' =
       IF universeFile[clock].exists
         THEN universeFile
         ELSE [universeFile EXCEPT ![clock] = [exists |-> TRUE, data |-> fetched]]
  /\ fetched' = {}
  /\ pc' = "read_json"
  /\ UNCHANGED <<seriesVars, clock, runs, today_date, stocks_info, resultFile,
                 universeCalls, pool_size, task, collected, results, error>>

\* Lines 402-404: the snapshot named by the module-level today_date is loaded.
ReadJson ==
  /\ pc = "read_json"
  /\ universeFile[today_date].exists
  /\ stocks_info' = universeFile[today_date].data
  /\ pc' = "submit"
  /\ UNCHANGED <<seriesVars, clock, runs, today_date, fetched, universeFile, resultFile,
                 universeCalls, pool_size, task, collected, results, error>>

\* Line 403 raises when that file does not exist.
ReadJsonMissing ==
  /\ pc = "read_json"
  /\ ~universeFile[today_date].exists
  /\ pc' = "aborted"
  /\ error' = "read_json"
  /\ UNCHANGED <<seriesVars, clock, runs, today_date, fetched, stocks_info, universeFile,
                 resultFile, universeCalls, pool_size, task, collected, results>>

\* Lines 406-414: the pool is sized and one future per stock code submitted.
Submit ==
  /\ pc = "submit"
  /\ \E num_cores \in 1..MaxCores : pool_size' = Max2(MinPoolSize, num_cores * 2)
  /\ task' = [t \in Tickers |->
                IF t \in stocks_info THEN [NewTask EXCEPT !.pc = "queued"] ELSE NewTask]
  /\ results' = <<>>
  /\ pc' = "pool"
  /\ UNCHANGED <<seriesVars, clock, runs, today_date, fetched, stocks_info, universeFile,
                 resultFile, universeCalls, collected, error>>

\* ------------------------------------------------------ worker threads

Running == { t \in Tickers : task[t].pc \in {"call", "eval", "sleep"} }

\* A pool thread takes the future; line 40 of the wrapper.
StartTask(t) ==
  /\ task[t].pc = "queued"
  /\ Cardinality(Running) < pool_size
  /\ task' = [task EXCEPT ![t] = [@ EXCEPT !.pc = "call", !.local_tries = tries,
                                            !.local_delay = delay]]
  /\ UNCHANGED <<seriesVars, clock, runs, pc, today_date, fetched, stocks_info, universeFile,
                 resultFile, universeCalls, pool_size, collected, results, error>>

\* Lines 124-125: the provider returns rows, made a DataFrame.
CallReturns(t) ==
  /\ task[t].pc = "call"
  /\ \E s \in MarketData :
       task' = [task EXCEPT ![t] = [@ EXCEPT !.pc = "eval", !.df = DataFrame(s),
                                              !.calls = @ + 1]]
  /\ UNCHANGED <<seriesVars, clock, runs, pc, today_date, fetched, stocks_info, universeFile,
                 resultFile, universeCalls, pool_size, collected, results, error>>

\* Line 124 raises; lines 141-143 re-raise into the wrapper.
CallRaises(t) ==
  /\ task[t].pc = "call"
  /\ task' = [task EXCEPT ![t] = OnException([@ EXCEPT !.calls = @ + 1])]
  /\ UNCHANGED <<seriesVars, clock, runs, pc, today_date, fetched, stocks_info, universeFile,
                 resultFile, universeCalls, pool_size, collected, results, error>>

\* Line 413: the tasks are submitted with filters_to_apply.
Evaluate(tk, code, info) ==
  ProcessFetched(tk, code, filters_to_apply, Returns(tk.df), info)

EvalTask(t) ==
  /\ task[t].pc = "eval"
  /\ task' = [task EXCEPT ![t] = Evaluate(@, t, stocks_info)]
  /\ UNCHANGED <<seriesVars, clock, runs, pc, today_date, fetched, stocks_info, universeFile,
                 resultFile, universeCalls, pool_size, collected, results, error>>

\* A variant that never multiplies the delay.
SleepTask_NoBackoff(t) ==
  /\ task[t].pc = "sleep"
  /\ task' = [task EXCEPT ![t] =
                [@ EXCEPT !.pc = "call",
                          !.sleeps = Append(@, [delay |-> task[t].local_delay,
                                                after |-> task[t].calls]),
                          !.local_tries = @ - 1]]
  /\ UNCHANGED <<seriesVars, clock, runs, pc, today_date, fetched, stocks_info,
                 universeFile, resultFile, universeCalls, pool_size, collected,
                 results, error>>

\* Lines 46-48: sleep, then one try fewer and a longer delay.
SleepTask(t) ==
  /\ task[t].pc = "sleep"
  /\ task' = [task EXCEPT ![t] =
                [@ EXCEPT !.pc = "call",
                          !.sleeps = Append(@, [delay |-> task[t].local_delay,
                                                after |-> task[t].calls]),
                          !.local_tries = @ - 1,
                          !.local_delay = @ * backoff]]
  /\ UNCHANGED <<seriesVars, clock, runs, pc, today_date, fetched, stocks_info, universeFile,
                 resultFile, universeCalls, pool_size, collected, results, error>>

\* ------------------------------------------------------ collector loop

\* A variant whose append overwrites what was collected before.
Collect_LostUpdate(t) ==
  /\ pc = "pool"
  /\ task[t].pc = "done"
  /\ t \notin collected
  /\ collected' = collected \cup {t}
  /\ results' = IF task[t].value # None THEN <<task[t].value>> ELSE results
  /\ UNCHANGED <<seriesVars, clock, runs, pc, today_date, fetched, stocks_info,
                 universeFile, resultFile, universeCalls, pool_size, task, error>>

\* Lines 417-421: as_completed yields a finished future; future.result()
\* re-raises what the task raised, which ends the loop and the execution;
\* otherwise a truthy result is appended to results.
\* A variant in which a future whose task returned None is never yielded.
Collect_SkipsNone(t) ==
  /\ pc = "pool"
  /\ task[t].pc = "done"
  /\ task[t].value # None
  /\ t \notin collected
  /\ collected' = collected \cup {t}
  /\ results' = Append(results, task[t].value)
  /\ UNCHANGED <<seriesVars, clock, runs, pc, error, today_date, fetched, stocks_info,
                 universeFile, resultFile, universeCalls, pool_size, task>>

Collect(t) ==
  /\ pc = "pool"
  /\ task[t].pc = "done"
  /\ t \notin collected
  /\ collected' = collected \cup {t}
  /\ IF task[t].raised
       THEN /\ pc' = "aborted"
            /\ error' = "task"
            /\ UNCHANGED results
       ELSE /\ results' = IF task[t].value # None
                            THEN Append(results, task[t].value) ELSE results
            /\ UNCHANGED <<pc, error>>
  /\ UNCHANGED <<seriesVars, clock, runs, today_date, fetched, stocks_info,
                 universeFile, resultFile, universeCalls, pool_size, task>>

\* A variant that leaves the loop without waiting for every future.
PoolExit_Early ==
  /\ pc = "pool"
  /\ pc' = "write_open"
  /\ UNCHANGED <<seriesVars, clock, runs, today_date, fetched, stocks_info, universeFile,
                 resultFile, universeCalls, pool_size, task, collected, results,
                 error>>

\* The loop ends when every future was yielded; the with block is left.
PoolExit ==
  /\ pc = "pool"
  /\ collected = stocks_info
  /\ pc' = "write_open"
  /\ UNCHANGED <<seriesVars, clock, runs, today_date, fetched, stocks_info, universeFile,
                 resultFile, universeCalls, pool_size, task, collected, results,
                 error>>

\* ------------------------------------------------------ result file

\* Line 424: open(file_name, 'w') creates or truncates the file in place.
WriteOpen ==
  /\ pc = "write_open"
  /\ resultFile' = [resultFile EXCEPT ![today_date] =
                      [exists |-> TRUE, recs |-> <<>>, closed |-> FALSE]]
  /\ pc' = "write_dump"
  /\ UNCHANGED <<seriesVars, clock, runs, today_date, fetched, stocks_info, universeFile,
                 universeCalls, pool_size, task, collected, results, error>>

\* Line 424 raises (the path is not writable): no file is created.
WriteOpenFails ==
  /\ pc = "write_open"
  /\ pc' = "aborted"
  /\ error' = "persist"
  /\ UNCHANGED <<seriesVars, clock, runs, today_date, fetched, stocks_info, universeFile,
                 resultFile, universeCalls, pool_size, task, collected, results>>

\* Line 425: json.dump writes the list piece by piece, here one record each.
WriteChunk ==
  /\ pc = "write_dump"
  /\ Len(resultFile[today_date].recs) < Len(results)
  /\ resultFile' = [resultFile EXCEPT ![today_date].recs =
                      Append(@, results[Len(@) + 1])]
  /\ UNCHANGED <<seriesVars, clock, runs, pc, today_date, fetched, stocks_info, universeFile,
                 universeCalls, pool_size, task, collected, results, error>>

\* Line 425 raises or the process is stopped: what was written stays.
WriteFails ==
  /\ pc = "write_dump"
  /\ pc' = "aborted"
  /\ error' = "persist"
  /\ UNCHANGED <<seriesVars, clock, runs, today_date, fetched, stocks_info, universeFile,
                 resultFile, universeCalls, pool_size, task, collected, results>>

\* Lines 425-427: the closing bracket is written and the file closed.
WriteClose ==
  /\ pc = "write_dump"
  /\ Len(resultFile[today_date].recs) = Len(results)
  /\ resultFile' = [resultFile EXCEPT ![today_date].closed = TRUE]
  /\ pc' = "finished"
  /\ UNCHANGED <<seriesVars, clock, runs, today_date, fetched, stocks_info, universeFile,
                 universeCalls, pool_size, task, collected, results, error>>

Next ==
  \/ Midnight
  \/ StartRunSkip
  \/ StartRunScreen
  \/ AllCodeReturns
  \/ AllCodeRaises
  \/ SaveUniverse
  \/ ReadJson
  \/ ReadJsonMissing
  \/ Submit
  \/ \E t \in Tickers : StartTask(t)
  \/ \E t \in Tickers : CallReturns(t)
  \/ \E t \in Tickers : CallRaises(t)
  \/ \E t \in Tickers : EvalTask(t)
  \/ \E t \in Tickers : SleepTask(t)
  \/ \E t \in Tickers : Collect(t)
  \/ PoolExit
  \/ WriteOpen
  \/ WriteOpenFails
  \/ WriteChunk
  \/ WriteFails
  \/ WriteClose

Spec == Init /\ [][Next]_vars

\* The steps of the main thread of an execution under way; in the collector
\* loop its step is to take a future that as_completed yields.
MainThread ==
  \/ AllCodeReturns \/ AllCodeRaises \/ SaveUniverse
  \/ ReadJson \/ ReadJsonMissing \/ Submit
  \/ \E t \in Tickers : Collect(t)
  \/ PoolExit
  \/ WriteOpen \/ WriteOpenFails \/ WriteChunk \/ WriteFails \/ WriteClose

\* The steps of the pool thread that runs the task of ticker t.
WorkerThread(t) ==
  StartTask(t) \/ CallReturns(t) \/ CallRaises(t) \/ EvalTask(t) \/ SleepTask(t)

\* The main thread keeps running; the pool has a thread for every queued
\* task (pool_size >= 10), and each thread keeps running: every provider
\* call returns or raises and every sleep ends.  Nothing obliges anyone to
\* start another execution, or the date to change.
Fairness ==
  /\ WF_vars(MainThread)
  /\ \A t \in Tickers : WF_vars(WorkerThread(t))

FairSpec == Init /\ [][Next]_vars /\ Fairness

\* ------------------------------------------------- predicates on a series
\* The predicates are pure functions of one DataFrame.  The series handed to
\* them here are None, the empty DataFrame, and every series of up to MaxLen
\* bars that follows a flat or a rising trend except at up to MaxSpikes bars,
\* which lie above it: long enough for the 30-bar windows, and with equal or
\* falling pairs, several maxima and ties wherever the spikes are put.

SpikeDeltas == {1, 2}
Trend(k, i) == 1 + k * i
Spikes(k, s) == Cardinality({ i \in 1..Len(s) : s[i] # Trend(k, i) })

InitSeries ==
  /\ InitRun
  /\ \/ series = NoneDf /\ slope = 0
     \/ series = DataFrame(<<>>) /\ slope \in {0, 1}
  /\ verdict = Verdicts(series)

\* The provider's next row lies on the trend.
AppendBar ==
  /\ ~series.none
  /\ Len(series.high) < MaxLen
  /\ series' = DataFrame(Append(series.high, Trend(slope, Len(series.high) + 1)))
  /\ verdict' = Verdicts(series')
  /\ UNCHANGED <<slope, runVars>>

\* The provider's next row lies above the trend.
AppendSpike ==
  /\ ~series.none
  /\ Len(series.high) < MaxLen
  /\ Spikes(slope, series.high) < MaxSpikes
  /\ \E d \in SpikeDeltas :
       series' = DataFrame(Append(series.high,
                                  Trend(slope, Len(series.high) + 1) + d))
  /\ verdict' = Verdicts(series')
  /\ UNCHANGED <<slope, runVars>>

SeriesNext == AppendBar \/ AppendSpike

SpecSeries == InitSeries /\ [][SeriesNext]_vars


\* ------------------------------------------------------------------ claims

Range(q) == { q[i] : i \in 1..Len(q) }

\* The task of ticker t ended with a fetched series that passed the chain.
Passing(t) ==
  /\ task[t].pc = "done"
  /\ ~task[t].df.none
  /\ Len(task[t].df.high) > 0
  /\ RunChain(filters_to_apply, 1, task[t].df) = "True"

\* The task of ticker t ended because its last attempt raised.
Exhausted(t) == task[t].pc = "done" /\ task[t].df.none

\* The collector loop has been left.
LoopLeft ==
  \/ pc \in {"write_open", "write_dump", "finished"}
  \/ pc = "aborted" /\ error = "persist"

\* C1: whatever the interleaving and completion order of the tasks, the
\* results list holds, once each, exactly the tickers of the universe whose
\* task ended with a fetched series that passed the whole chain; while the
\* loop runs it holds exactly those of them already collected.
C1_ResultsExact ==
  /\ pc \in {"pool"} \/ LoopLeft =>
       /\ Range(results) = { t \in collected : Passing(t) }
       /\ Len(results) = Cardinality(Range(results))
  /\ LoopLeft => collected = stocks_info

\* C1 witness: the run finished with both tickers passing, collected in the
\* reverse of submission order.
C1_Witness ==
  /\ pc = "finished"
  /\ results = <<2, 1>>
  /\ Passing(1) /\ Passing(2)

\* C2: once an execution has taken the branch of an existing result file, it
\* has made no provider call, has submitted no task, and no step changes
\* today's universe or result file.
C2_IdempotentRerun ==
  [][pc' = "skipped" =>
       /\ universeCalls' = 0
       /\ \A t \in Tickers : task'[t].pc = "unsubmitted" /\ task'[t].calls = 0
       /\ universeFile'[today_date'] = universeFile[today_date']
       /\ resultFile'[today_date'] = resultFile[today_date']]_vars

\* C2 witness: the second execution, on the date of a first one that wrote
\* both files, took the skip branch.
C2_Witness ==
  /\ pc = "skipped"
  /\ runs = 2
  /\ today_date = 1
  /\ universeFile[today_date].exists
  /\ resultFile[today_date].closed
  /\ Len(resultFile[today_date].recs) > 0

\* C3 (as claimed): the provider's universe fetch is made only when no
\* universe snapshot for today exists, and at most once per execution.
C3_UniverseCacheHit ==
  [][universeCalls' = universeCalls + 1 =>
       ~universeFile[today_date].exists /\ universeCalls = 0]_vars

\* C4: a task makes at most 3 attempts; it has slept once after each failed
\* attempt but the last, first 2 then 4 time units, the k-th sleep after the
\* k-th attempt and before the next; and a task whose third attempt returned
\* a series ends with that attempt's outcome.
C4_RetrySchedule ==
  \A t \in Tickers :
    LET tk == task[t]
    IN  /\ tk.calls <= 3
        /\ Len(tk.sleeps) <= 2
        /\ \A k \in 1..Len(tk.sleeps) :
             /\ tk.sleeps[k].after = k
             /\ tk.sleeps[k].delay = (IF k = 1 THEN 2 ELSE 4)
        /\ tk.pc = "call" => Len(tk.sleeps) = tk.calls
        /\ tk.pc \in {"eval", "sleep", "done"} => Len(tk.sleeps) = tk.calls - 1
        /\ (tk.pc = "done" /\ tk.calls = 3 /\ ~tk.df.none) =>
             /\ tk.logged = 0
             /\ tk.value = (IF Passing(t) THEN t ELSE None)

\* C4 witness: a task passed on its third attempt, after sleeps of 2 and 4.
C4_Witness ==
  \E t \in Tickers :
    /\ task[t].pc = "done"
    /\ task[t].calls = 3
    /\ task[t].value = t
    /\ task[t].sleeps = <<[delay |-> 2, after |-> 1], [delay |-> 4, after |-> 2]>>

\* C5: a task whose last attempt raised has made exactly 3 attempts, has
\* appended exactly one line to the error log, returned None without
\* raising, and its ticker is not in results; no other task logs a line.
C5_ExhaustedRetries ==
  \A t \in Tickers :
    /\ task[t].calls <= 3
    /\ task[t].logged > 0 => Exhausted(t)
    /\ Exhausted(t) =>
         /\ task[t].calls = 3
         /\ task[t].logged = 1
         /\ task[t].value = None
         /\ ~task[t].raised
         /\ t \notin Range(results)

\* C5 witness: the run finished although a ticker's three attempts all
\* raised.
C5_Witness ==
  /\ pc = "finished"
  /\ \E t \in stocks_info : Exhausted(t) /\ task[t].calls = 3 /\ t \in collected

\* C6: no task outcome ends the collector loop; once the loop is left every
\* task of the universe is in a terminal state; and the result file, once
\* written, holds every ticker that passed.
C6_FailureIsolation ==
  /\ error # "task"
  /\ LoopLeft => \A t \in stocks_info : task[t].pc = "done"
  /\ pc = "finished" =>
       /\ resultFile[today_date].exists
       /\ Range(resultFile[today_date].recs) = { t \in stocks_info : Passing(t) }

\* C6 witness: one ticker failed after exhausting its retries, the file was
\* written and holds the other ticker, which passed.
C6_Witness ==
  /\ pc = "finished"
  /\ \E t \in stocks_info : task[t].logged = 1
  /\ \E t \in stocks_info : Passing(t) /\ t \in Range(resultFile[today_date].recs)

\* Bars of the series under test (0 for None).
Bars == IF series.none THEN 0 ELSE Len(series.high)

\* C7 (as claimed): on None and on every series shorter than its lookback
\* (10 bars for is_price_increasing, 30 for is_30_to_7_high_max and
\* is_seven_equals_thirty_high, 3 for filter_logic_three) a predicate
\* returns false and does not raise.
C7_ShortSeriesSafe ==
  /\ Bars < 10 => verdict.is_price_increasing = "False"
  /\ Bars < 30 => /\ verdict.is_30_to_7_high_max = "False"
                  /\ verdict.is_seven_equals_thirty_high = "False"
  /\ Bars < 3 => verdict.filter_logic_three = "False"

\* The lookback of the chain: the largest lookback of its predicates.
ChainLookback == 3

\* C8 (as claimed): the evaluation of a fetched series that is empty or
\* shorter than the chain's lookback ends the task at once with no result:
\* no retry, no sleep, no further provider call and no error-log line.
C8_ShapeNotRetried ==
  [][\A t \in Tickers :
       (task[t].pc = "eval" /\ Len(task[t].df.high) < ChainLookback
          /\ task'[t] # task[t]) =>
         /\ task'[t].pc = "done"
         /\ task'[t].value = None
         /\ task'[t].logged = task[t].logged
         /\ task'[t].sleeps = task[t].sleeps
         /\ task'[t].calls = task[t].calls]_vars

\* C9 (as claimed): a result file that exists is complete: it was closed
\* after the whole results list of a finished screening was written; in
\* particular none is left behind by a failed write.
C9_AtomicResultFile ==
  \A d \in Dates :
    resultFile[d].exists =>
      /\ resultFile[d].closed
      /\ (today_date = d /\ ~(pc \in {"skipped", "idle"})) =>
           resultFile[d].recs = results

\* C10: on a series of at least 10 bars is_price_increasing returns true
\* exactly when each of the 9 adjacent pairs among its last 10 highs is
\* strictly increasing (so no earlier bar matters), and it never raises.
C10_ContinuousRise ==
  Bars >= 10 =>
    verdict.is_price_increasing =
      (IF \A i \in (Bars - 9)..(Bars - 1) : series.high[i] < series.high[i + 1]
         THEN "True" ELSE "False")

\* C10 witness: the predicate is true of a series of more than 10 bars
\* whose last bar before the final 10 is not below the one after it.
C10_Witness ==
  /\ Bars >= 11
  /\ verdict.is_price_increasing = "True"
  /\ series.high[Bars - 10] >= series.high[Bars - 9]

\* The 23 bars before the last 7 (the 30th- to 8th-most-recent) and the last
\* 7 bars, as 1-based positions of the series under test.
OlderBars == (Bars - 29)..(Bars - 7)
RecentBars == (Bars - 6)..Bars

\* C11: on a series of at least 30 bars is_30_to_7_high_max returns true
\* exactly when no high among the 23 bars before the last 7 exceeds every
\* high of the last 7 bars (equal maxima pass); on fewer than 30 bars it
\* returns false.
C11_RecentHighDominance ==
  /\ Bars >= 30 =>
       verdict.is_30_to_7_high_max =
         (IF \A i \in OlderBars : \E j \in RecentBars : series.high[i] <= series.high[j]
            THEN "True" ELSE "False")
  /\ Bars < 30 => verdict.is_30_to_7_high_max = "False"

\* C11 witness: the predicate is true of a series of more than 30 bars whose
\* highest of the 23 older bars equals the highest of the last 7, although a
\* bar before the 30-bar window is higher than both.
C11_Witness ==
  /\ Bars >= 31
  /\ verdict.is_30_to_7_high_max = "True"
  /\ \E i \in OlderBars : \A j \in RecentBars : series.high[i] >= series.high[j]
  /\ \A j \in RecentBars : series.high[1] > series.high[j]

\* The 1-based position of the bar of rank n of the series under test: n - 1
\* bars come before it when the bars are ordered by high, highest first, and
\* bars of equal high by position, earliest first.
Outranks(q, p) ==
  \/ series.high[q] > series.high[p]
  \/ series.high[q] = series.high[p] /\ q < p
RankedAt(n) ==
  CHOOSE p \in 1..Bars : Cardinality({ q \in 1..Bars : Outranks(q, p) }) = n - 1
Apart(p, q) == p - q # 1 /\ q - p # 1

C13_StableNthHigh ==
  ~series.none =>
    \A n \in 1..MaxRank :
      LET nth == verdict.get_nth_high_info[n]
          p == nth.index + 1
      IN  IF n <= Bars
            THEN /\ ~nth.none
                 /\ p \in 1..Bars
                 /\ Cardinality({ q \in 1..Bars : Outranks(q, p) }) = n - 1
                 /\ nth.date = p
                 /\ nth.value = series.high[p]
            ELSE nth = NoneTriple

\* C13 witness: the 1st- and 2nd-highest bars found have equal highs, the
\* earlier bar first, and a lower bar found 3rd lies before both.
C13_Witness ==
  /\ Bars >= 3
  /\ LET nth == verdict.get_nth_high_info
     IN  /\ nth[1].value = nth[2].value
         /\ nth[1].index < nth[2].index
         /\ nth[3].value < nth[2].value
         /\ nth[3].index < nth[1].index

\* The filters of chain c that the loop reaches on the series under test: all
\* up to and including the first that does not return true.
Reached(c) ==
  { i \in 1..Len(c) : \A j \in 1..(i - 1) : verdict[c[j]] = "True" }

\* C14: for every chain of predicates and every non-empty series
\* process_stock returns a record exactly when every predicate of the chain
\* returns true of the series; the predicates are invoked in the order of
\* the chain, and none is invoked after the first that returns false.
C14_ChainConjunction ==
  Bars >= 1 =>
    \A c \in Chains :
      LET out == verdict.process_stock[c]
      IN  /\ out.value # None <=> \A i \in 1..Len(c) : verdict[c[i]] = "True"
          /\ out.invoked = SubSeq(c, 1, Cardinality(Reached(c)))

\* C14 witness: a chain whose first predicate returns false of the series
\* and whose second would return true: only the first was invoked and no
\* record was returned.
C14_Witness ==
  /\ Bars >= 1
  /\ \E c \in Chains :
       /\ Len(c) = 2
       /\ verdict[c[1]] = "False"
       /\ verdict[c[2]] = "True"
       /\ verdict.process_stock[c] = [value |-> None, invoked |-> <<c[1]>>]

\* The state of a ticker's task in the per-ticker state machine.
TickerState(tk) ==
  CASE tk.pc \in {"unsubmitted", "queued"} -> "Pending"
    [] tk.pc \in {"call", "sleep"} -> "Fetching"
    [] tk.pc = "eval" -> "Evaluating"
    [] tk.pc = "done" /\ tk.value # None -> "Passed"
    [] tk.pc = "done" /\ tk.value = None /\ (tk.logged > 0 \/ tk.raised) -> "Failed"
    [] OTHER -> "Rejected"

TickerTransitions ==
  { <<"Pending", "Fetching">>, <<"Fetching", "Fetching">>,
    <<"Fetching", "Evaluating">>, <<"Fetching", "Failed">>,
    <<"Evaluating", "Passed">>, <<"Evaluating", "Rejected">>,
    <<"Evaluating", "Failed">> }

\* C15 (as claimed): within an execution a ticker only moves Pending ->
\* Fetching, Fetching -> Fetching, Fetching -> Evaluating, Fetching ->
\* Failed, Evaluating -> Passed, Rejected or Failed; in particular it never
\* goes back from Evaluating to Fetching, and never leaves a terminal state.
C15_TickerStateMachine ==
  [][runs' = runs =>
       \A t \in Tickers :
         \/ TickerState(task'[t]) = TickerState(task[t])
         \/ <<TickerState(task[t]), TickerState(task'[t])>> \in TickerTransitions]_vars

\* C16: within an execution the result file changes only after every ticker
\* of the universe has reached a terminal state and was consumed by the
\* collector, never while a task is pending or running; only today's file
\* changes; a file once opened is only appended to and then closed, never
\* opened or changed again; and an execution that finishes has written it.
C16_WriteOnceAfterCompletion ==
  [][/\ (runs' = runs /\ resultFile' # resultFile) =>
          /\ collected = stocks_info
          /\ \A t \in stocks_info : task[t].pc = "done"
          /\ \A t \in Tickers : task[t].pc \notin {"queued", "call", "eval", "sleep"}
          /\ \A d \in Dates \ {today_date} : resultFile'[d] = resultFile[d]
          /\ resultFile[today_date].exists =>
               /\ ~resultFile[today_date].closed
               /\ resultFile'[today_date].exists
               /\ Len(resultFile'[today_date].recs) >= Len(resultFile[today_date].recs)
               /\ SubSeq(resultFile'[today_date].recs, 1,
                         Len(resultFile[today_date].recs)) = resultFile[today_date].recs
     /\ pc' = "finished" =>
          /\ resultFile'[today_date'].closed
          /\ resultFile'[today_date'].recs = results']_vars

\* C16 witness: an execution finished and wrote a file of one record after
\* one ticker was rejected on its second attempt and the other passed.
C16_Witness ==
  /\ pc = "finished"
  /\ resultFile[today_date].closed
  /\ Len(resultFile[today_date].recs) = 1
  /\ collected = stocks_info
  /\ \E t \in stocks_info :
       /\ task[t].pc = "done" /\ task[t].calls = 2
       /\ task[t].value = None /\ task[t].logged = 0

\* C17 (as claimed): within an execution the date in the snapshot name that
\* get_stocks_info checks and writes is the date computed at start, which
\* is also the date in the name of the snapshot loaded and of the result
\* file: no file of another date is written, even when the calendar date
\* changes while the execution is under way.
C17_SingleDateKey ==
  [][runs' = runs =>
       /\ (pc = "save_universe" /\ pc' # pc) => clock = today_date
       /\ \A d \in Dates \ {today_date} :
            /\ universeFile'[d] = universeFile[d]
            /\ resultFile'[d] = resultFile[d]]_vars

\* C18 (as claimed): every execution that screens ends having written
\* today's result file.
C18_AlwaysWritten ==
  pc \in {"finished", "aborted"} => resultFile[today_date].closed

\* C18 (amended): under fair scheduling, once the tasks are submitted every
\* ticker reaches a terminal state after at most 3 attempts, and the
\* collector loop is left with every ticker terminal; the execution then
\* ends, having written today's result file or with a failed write.
C18_Termination ==
  /\ \A t \in Tickers :
       (task[t].pc = "queued") ~> (task[t].pc = "done" /\ task[t].calls <= 3)
  /\ (pc = "pool") ~>
       (/\ \A t \in stocks_info : task[t].pc = "done"
        /\ \/ pc = "finished" /\ resultFile[today_date].closed
           \/ pc = "aborted" /\ error = "persist")

\* C18 witness: an execution wrote the result file after every ticker of the
\* universe took all 3 attempts.
C18_Witness ==
  /\ pc = "finished"
  /\ resultFile[today_date].closed
  /\ stocks_info # {}
  /\ \A t \in stocks_info : task[t].pc = "done" /\ task[t].calls = 3

\* C19: on a series of at least 3 bars filter_logic_three returns true
\* exactly when the high of the last bar is strictly greater than every
\* earlier high: the clause on the adjacent 2nd- and 3rd-highest bars never
\* decides.
C19_AdjacencyVacuous ==
  Bars >= 3 =>
    verdict.filter_logic_three =
      (IF \A i \in 1..(Bars - 1) : series.high[i] < series.high[Bars]
         THEN "True" ELSE "False")

\* C19 witness: the predicate is true of a series whose 2nd-highest bar is
\* next to the highest, the last one.
C19_Witness ==
  /\ Bars >= 3
  /\ verdict.filter_logic_three = "True"
  /\ verdict.get_nth_high_info[1].index = Bars - 1
  /\ verdict.get_nth_high_info[2].index = Bars - 2

\* C20: is_seven_equals_thirty_high and is_30_to_7_high_max return the same
\* value for every series (and for None).
C20_SameThirtySeven ==
  verdict.is_seven_equals_thirty_high = verdict.is_30_to_7_high_max

\* C20 witness: both return false of a series of at least 30 bars, the
\* highest of its last 30 bars being the 8th from the end.
C20_Witness ==
  /\ Bars >= 30
  /\ verdict.is_seven_equals_thirty_high = "False"
  /\ verdict.is_30_to_7_high_max = "False"
  /\ \A i \in (OlderBars \cup RecentBars) \ {Bars - 7} :
       series.high[i] < series.high[Bars - 7]

====
